---- MODULE Spec2Model ----
(***************************************************************************)
(* A model of sanitizer.py: main's worker pool, process_file, the three    *)
(* supervised strategies (sanitize_video, sanitize_audio, sanitize_gif),   *)
(* sanitize_image, the shared stats and the output tree.                   *)
(*                                                                         *)
(* Strings the code takes apart (relative paths, output paths) are         *)
(* sequences of one-character strings, so that dirname, basename,          *)
(* splitext, re.sub and join are computed as Python computes them.        *)
(***************************************************************************)
EXTENDS Integers, Sequences, FiniteSets, TLC

(***************************************************************************)
(* Configuration (sanitizer.py, lines 16-22).                              *)
(***************************************************************************)
INPUT_DIR == <<"/", "a", "p", "p", "/", "i", "n", "p", "u", "t">>

OUTPUT_DIR == <<"/", "a", "p", "p", "/", "o", "u", "t", "p", "u", "t">>

\* 2 GiB in the code.  Sizes are counted here in units of 1 MiB: the model
\* checker's integers are 32 bits wide and 2 * 1024 * 1024 * 1024 does not
\* fit.  Only the order of a size and the limit is read by the code.
MAX_FILE_SIZE_BYTES == 2 * 1024

MAX_WORKERS == 2

(***************************************************************************)
(* Bounds of the model.                                                    *)
(***************************************************************************)
\* The largest number of files the input tree holds.
MaxFiles == 2

(***************************************************************************)
(* Characters.                                                             *)
(***************************************************************************)
Lowers == {"a", "b", "e", "f", "g", "i", "j", "m", "n", "o", "p", "t", "u", "w", "x"}

Uppers == {"G", "J", "P"}

Digits == {"4"}

Alphabet == Lowers \cup Uppers \cup Digits \cup {" ", ".", "/", "_", "-"}

\* The code point of a character: list.sort() compares str by code point.
Ord(c) ==
    CASE c = " " -> 32
      [] c = "-" -> 45
      [] c = "." -> 46
      [] c = "/" -> 47
      [] c = "4" -> 52
      [] c = "G" -> 71
      [] c = "J" -> 74
      [] c = "P" -> 80
      [] c = "_" -> 95
      [] c = "a" -> 97
      [] c = "b" -> 98
      [] c = "e" -> 101
      [] c = "f" -> 102
      [] c = "g" -> 103
      [] c = "i" -> 105
      [] c = "j" -> 106
      [] c = "m" -> 109
      [] c = "n" -> 110
      [] c = "o" -> 111
      [] c = "p" -> 112
      [] c = "t" -> 116
      [] c = "u" -> 117
      [] c = "w" -> 119
      [] c = "x" -> 120

\* str.lower() on one character.
LowerChar(c) ==
    CASE c = "G" -> "g"
      [] c = "J" -> "j"
      [] c = "P" -> "p"
      [] OTHER -> c

\* ext.lower()
Lower(s) == [i \in 1..Len(s) |-> LowerChar(s[i])]

\* s < t for two str, as list.sort() orders them.
RECURSIVE StrLess(_, _)
StrLess(s, t) ==
    IF t = <<>> THEN FALSE
    ELSE IF s = <<>> THEN TRUE
    ELSE IF Ord(Head(s)) # Ord(Head(t)) THEN Ord(Head(s)) < Ord(Head(t))
    ELSE StrLess(Tail(s), Tail(t))

\* s.rfind(c), counted from 1; 0 when c is not in s.
RFind(s, c) ==
    LET hits == {i \in 1..Len(s) : s[i] = c}
    IN  IF hits = {} THEN 0 ELSE CHOOSE i \in hits : \A j \in hits : j <= i

\* s.startswith(p)
StartsWith(s, p) == Len(s) >= Len(p) /\ SubSeq(s, 1, Len(p)) = p

\* s.rstrip('/')
RECURSIVE RStripSlash(_)
RStripSlash(s) ==
    IF s # <<>> /\ s[Len(s)] = "/" THEN RStripSlash(SubSeq(s, 1, Len(s) - 1))
    ELSE s

\* os.path.dirname (posixpath): the head up to the last slash, its trailing
\* slashes stripped unless it is slashes only.
DirName(p) ==
    LET i == RFind(p, "/")
        head == SubSeq(p, 1, i)
    IN  IF head # <<>> /\ \E k \in 1..Len(head) : head[k] # "/"
        THEN RStripSlash(head)
        ELSE head

\* os.path.basename (posixpath): what follows the last slash.
BaseName(p) == SubSeq(p, RFind(p, "/") + 1, Len(p))

\* The index of the dot os.path.splitext splits a base name at; 0 when it
\* splits nothing off (no dot, or only leading dots before the last one).
SplitDot(b) ==
    LET d == RFind(b, ".")
    IN  IF d > 0 /\ \E k \in 1..(d - 1) : b[k] # "." THEN d ELSE 0

\* os.path.splitext(b)[0] and [1], for a base name b.
SplitExtRoot(b) == IF SplitDot(b) = 0 THEN b ELSE SubSeq(b, 1, SplitDot(b) - 1)

SplitExtExt(b) == IF SplitDot(b) = 0 THEN <<>> ELSE SubSeq(b, SplitDot(b), Len(b))

\* re.sub(r'[^a-zA-Z0-9._-]', '_', s)
SafeChar(c) == IF c \in Lowers \cup Uppers \cup Digits \cup {".", "_", "-"} THEN c ELSE "_"

ReSub(s) == [i \in 1..Len(s) |-> SafeChar(s[i])]

\* os.path.join(a, b) (posixpath): an absolute b replaces a.
Join(a, b) ==
    IF b # <<>> /\ b[1] = "/" THEN b
    ELSE IF a = <<>> \/ a[Len(a)] = "/" THEN a \o b
    ELSE a \o <<"/">> \o b

\* The segments of a path between slashes, empty segments included.
RECURSIVE Segments(_)
Segments(p) ==
    LET hits == {i \in 1..Len(p) : p[i] = "/"}
    IN  IF hits = {} THEN <<p>>
        ELSE LET i == CHOOSE k \in hits : \A j \in hits : k <= j
             IN  <<SubSeq(p, 1, i - 1)>> \o Segments(SubSeq(p, i + 1, Len(p)))

\* The segments of an absolute path once "." and ".." are resolved, as the
\* file system resolves them (no symbolic links in the output tree).
RECURSIVE Resolve(_, _)
Resolve(segs, acc) ==
    IF segs = <<>> THEN acc
    ELSE LET s == Head(segs)
         IN  IF s = <<>> \/ s = <<".">> THEN Resolve(Tail(segs), acc)
             ELSE IF s = <<".", ".">>
                  THEN Resolve(Tail(segs),
                               IF acc = <<>> THEN acc ELSE SubSeq(acc, 1, Len(acc) - 1))
             ELSE Resolve(Tail(segs), Append(acc, s))

\* The location an absolute path names.
Location(p) == Resolve(Segments(p), <<>>)

\* p names a location strictly inside directory d.
Inside(p, d) ==
    LET lp == Location(p)
        ld == Location(d)
    IN  Len(lp) > Len(ld) /\ SubSeq(lp, 1, Len(ld)) = ld

(***************************************************************************)
(* Classification and the output path (process_file, lines 379-422).       *)
(***************************************************************************)
\* What get_mime_type returns: a MIME type "type/sub", or None.
NoMime == [type |-> "", sub |-> ""]

Mimes ==
    { [type |-> "image", sub |-> "gif"],
      [type |-> "image", sub |-> "png"],
      [type |-> "video", sub |-> "mp4"],
      [type |-> "audio", sub |-> "mpeg"],
      [type |-> "text", sub |-> "plain"] }

\* A classifier that tests for image/* before it tests for image/gif.
CategorizeImageFirst(mime_type) ==
    IF mime_type.type = "image" THEN "image"
    ELSE IF mime_type = [type |-> "image", sub |-> "gif"] THEN "gif"
    ELSE IF mime_type.type = "video" THEN "video"
    ELSE IF mime_type.type = "audio" THEN "audio"
    ELSE "other"

\* cat, lines 380-384.
Categorize(mime_type) ==
    IF mime_type = [type |-> "image", sub |-> "gif"] THEN "gif"
    ELSE IF mime_type.type = "video" THEN "video"
    ELSE IF mime_type.type = "audio" THEN "audio"
    ELSE IF mime_type.type = "image" THEN "image"
    ELSE "other"

\* str(uuid.uuid4())[:8], cut to one character.
UUIDs == {<<"a">>, <<"b">>}

\* safe_base, lines 393-395.
SafeBase(rel_path, uuid) ==
    LET safe_base == ReSub(SplitExtRoot(BaseName(rel_path)))
    IN  IF safe_base = <<>>
        THEN <<"s", "a", "n", "i", "t", "i", "z", "e", "d", "_">> \o uuid
        ELSE safe_base

\* The target directory joined to the input root instead of the output root.
TargetDirUnderInput(rel_path) == Join(INPUT_DIR, DirName(rel_path))

\* target_dir, line 397.
TargetDir(rel_path) == Join(OUTPUT_DIR, DirName(rel_path))

ImageExts ==
    { <<".", "j", "p", "g">>, <<".", "j", "p", "e", "g">>, <<".", "p", "n", "g">>,
      <<".", "w", "e", "b", "p">>, <<".", "b", "m", "p">> }

\* ext, lines 414-416.
ImageExt(rel_path) ==
    LET ext == Lower(SplitExtExt(BaseName(rel_path)))
    IN  IF ext \in ImageExts THEN ext ELSE <<".", "p", "n", "g">>

\* The extension each strategy writes, lines 406, 410, 417, 421.
OutExt(rel_path, cat) ==
    CASE cat = "gif" -> <<".", "g", "i", "f">>
      [] cat = "video" -> <<".", "m", "p", "4">>
      [] cat = "image" -> ImageExt(rel_path)
      [] cat = "audio" -> <<".", "m", "4", "a">>

\* output_path, lines 406, 410, 417, 421.
OutputPath(rel_path, cat, uuid) ==
    Join(TargetDir(rel_path), SafeBase(rel_path, uuid) \o OutExt(rel_path, cat))

(***************************************************************************)
(* The input tree and main's enumeration (main, lines 458-470).            *)
(***************************************************************************)
\* The files the input tree may hold, by path relative to INPUT_DIR, as
\* os.walk and os.path.relpath give them: no ".." segment, not absolute.
TreePaths ==
    { <<"a", "/", "x", ".", "j", "p", "g">>,
      <<"b", "/", "x", ".", "j", "p", "g">>,
      <<"a", " ", "b", ".", "j", "p", "g">>,
      <<"a", "_", "b", ".", "j", "p", "g">>,
      <<".", "a", ".", "j", "p", "g">> }

\* f.startswith('.'), line 462
Hidden(rel_path) == StartsWith(BaseName(rel_path), <<".">>)

\* The list in descending order.
SortedDescending(S) ==
    CHOOSE s \in [1..Cardinality(S) -> S] :
        \A i, j \in 1..Cardinality(S) : i < j => StrLess(s[j], s[i])

\* task_files.sort(), line 470
Sorted(S) ==
    CHOOSE s \in [1..Cardinality(S) -> S] :
        \A i, j \in 1..Cardinality(S) : i < j => StrLess(s[i], s[j])

\* task_files as main builds it from the files of the tree, lines 458-470.
Enumerate(files) == Sorted({f \in files : ~Hidden(f)})

(***************************************************************************)
(* What the collaborators may answer.                                      *)
(***************************************************************************)
\* os.path.getsize of an input file.
Sizes == {MAX_FILE_SIZE_BYTES, MAX_FILE_SIZE_BYTES + 1}

\* os.path.getsize of an output file.
OutSizes == {1}

\* ffprobe's duration in seconds; NoDuration is get_video_duration's None.
NoDuration == -1

Durations == {0, 10, 1440}

GIF_TIMEOUT == 300

DEFAULT_TIMEOUT == 3600

\* Time passes in steps of the default deadline.
TickStep == DEFAULT_TIMEOUT

(***************************************************************************)
(* State.                                                                  *)
(***************************************************************************)
VARIABLES
    task_files,   \* main's sorted list of relative paths
    mainpc,       \* where main is: "start", "pool", "reported", "returned"
    nextTask,     \* the executor's work queue: the index of its first item
    slot_queue,   \* the display slots that are free
    stats,        \* the shared statistics
    stats_lock,   \* the worker holding stats_lock, 0 when it is free
    report,       \* the figures of the final report, once printed
    wk,           \* each worker thread: its position and process_file's locals
    tk,           \* each task: what has happened to it
    events,       \* each task: the log_event calls made for it, in order
    files,        \* the paths of the output tree that are files
    dirs          \* the directories os.makedirs has made

vars ==
    <<task_files, mainpc, nextTask, slot_queue, stats, stats_lock, report,
      wk, tk, events, files, dirs>>

Workers == 1..MAX_WORKERS

Tasks == 1..Len(task_files)

NoPath == <<>>

stats0 ==
    [ total |-> 0, success |-> 0, failed |-> <<>>, skipped |-> 0, ignored |-> 0,
      ignored_files |-> <<>>,
      types |-> [image |-> 0, video |-> 0, audio |-> 0, gif |-> 0, other |-> 0],
      original_size |-> 0, sanitized_size |-> 0 ]

\* A worker thread with no work item.
IdleWorker ==
    [ pc |-> "idle", task |-> 0, slot |-> -1, orig_size |-> 0, cat |-> "",
      output_path |-> NoPath, success |-> FALSE, error_reason |-> "Unknown error",
      process |-> "none", stderr |-> "empty", duration |-> NoDuration,
      elapsed |-> 0, timeout_limit |-> 0 ]

\* A task nothing has happened to.
NewTask ==
    [ state |-> "queued",      \* queued, running, returned, raised
      size |-> -1,             \* os.path.getsize's answer, -1 before it
      sniffed |-> FALSE,       \* get_mime_type was called
      mime_type |-> NoMime,    \* what get_mime_type returned
      cat |-> "",              \* the category, once classified
      made_dir |-> FALSE,      \* os.makedirs made the target directory
      strategy |-> "",         \* the strategy called
      ended |-> "",            \* how the strategy ended
      output_path |-> NoPath,  \* the output path computed
      at_return |-> "none",    \* the transcoder process when the strategy returned
      outcomes |-> <<>>,       \* the outcomes recorded in stats
      err_output |-> "none",   \* what process.stderr.read() gave, "none" before it
      output_at_record |-> FALSE ]  \* the output file existed when recorded

Init ==
    /\ \E tree \in SUBSET TreePaths :
          /\ Cardinality(tree) <= MaxFiles
          /\ task_files = Enumerate(tree)
    /\ mainpc = "start"
    /\ nextTask = 1
    /\ slot_queue = <<>>
    /\ stats = stats0
    /\ stats_lock = 0
    /\ report = stats0
    /\ wk = [w \in Workers |-> IdleWorker]
    /\ tk = [t \in Tasks |-> NewTask]
    /\ events = [t \in Tasks |-> <<>>]
    /\ files = {}
    /\ dirs = {}

\* log_event(event_type, message, {"file": ...}) for task t.
Logged(ev, t, event_type, message) ==
    [ev EXCEPT ![t] = Append(@, <<event_type, message>>)]

(***************************************************************************)
(* main (lines 450-548).                                                   *)
(***************************************************************************)
\* Lines 466-468: nothing to do.
MainNoFiles ==
    /\ mainpc = "start"
    /\ task_files = <<>>
    /\ mainpc' = "returned"
    /\ UNCHANGED <<task_files, nextTask, slot_queue, stats, stats_lock, report,
                   wk, tk, events, files, dirs>>

\* Lines 472-484: the slots are put in the queue and every task is submitted.
MainSubmit ==
    /\ mainpc = "start"
    /\ task_files # <<>>
    /\ mainpc' = "pool"
    /\ slot_queue' = [i \in 1..MAX_WORKERS |-> i - 1]
    /\ UNCHANGED <<task_files, nextTask, stats, stats_lock, report,
                   wk, tk, events, files, dirs>>

\* The executor has shut down: every work item was taken and every worker is idle.
PoolFinished ==
    /\ mainpc \in {"pool", "reported"}
    /\ nextTask > Len(task_files)
    /\ \A w \in Workers : wk[w].pc = "idle"

\* Lines 489-548: the final report, once the with block has joined the workers.
MainReport ==
    /\ mainpc = "pool"
    /\ PoolFinished
    /\ mainpc' = "reported"
    /\ report' = stats
    /\ UNCHANGED <<task_files, nextTask, slot_queue, stats, stats_lock,
                   wk, tk, events, files, dirs>>

(***************************************************************************)
(* The pool's worker threads and worker_wrapper (main, lines 476-484).     *)
(***************************************************************************)
\* An executor that drops the queued work items once a task has raised.
TakeTaskUnlessRaised(w) ==
    /\ \A t \in Tasks : tk[t].state # "raised"
    /\ \A v \in Workers : wk[v].pc # "raised"
    /\ mainpc = "pool"
    /\ wk[w].pc = "idle"
    /\ \A v \in Workers : wk[v].pc = "idle" => w <= v
    /\ nextTask <= Len(task_files)
    /\ wk' = [wk EXCEPT ![w].pc = "slot", ![w].task = nextTask]
    /\ tk' = [tk EXCEPT ![nextTask].state = "running"]
    /\ nextTask' = nextTask + 1
    /\ UNCHANGED <<task_files, mainpc, slot_queue, stats, stats_lock, report,
                   events, files, dirs>>

\* An executor whose threads read the first work item without removing it.
TakeTaskWithoutDequeue(w) ==
    /\ mainpc = "pool"
    /\ wk[w].pc = "idle"
    /\ \A v \in Workers : wk[v].pc = "idle" => w <= v
    /\ nextTask <= Len(task_files)
    /\ tk[nextTask].state \in {"queued", "running"}
    /\ wk' = [wk EXCEPT ![w].pc = "slot", ![w].task = nextTask]
    /\ tk' = [tk EXCEPT ![nextTask].state = "running"]
    /\ nextTask' = IF tk[nextTask].state = "running" THEN nextTask + 1 ELSE nextTask
    /\ UNCHANGED <<task_files, mainpc, slot_queue, stats, stats_lock, report,
                   events, files, dirs>>

\* A thread of the executor takes the first work item of the queue.  The
\* threads are alike: of the idle ones, the first takes it.
TakeTask(w) ==
    /\ mainpc = "pool"
    /\ wk[w].pc = "idle"
    /\ \A v \in Workers : wk[v].pc = "idle" => w <= v
    /\ nextTask <= Len(task_files)
    /\ wk' = [wk EXCEPT ![w].pc = "slot", ![w].task = nextTask]
    /\ tk' = [tk EXCEPT ![nextTask].state = "running"]
    /\ nextTask' = nextTask + 1
    /\ UNCHANGED <<task_files, mainpc, slot_queue, stats, stats_lock, report,
                   events, files, dirs>>

\* Line 477: slot_queue.get() waits for a slot.  Lines 349-352: the task is a
\* file (os.walk lists no directory among the files), so process_file goes on.
GetSlot(w) ==
    /\ wk[w].pc = "slot"
    /\ slot_queue # <<>>
    /\ wk' = [wk EXCEPT ![w].pc = "total", ![w].slot = Head(slot_queue)]
    /\ slot_queue' = Tail(slot_queue)
    /\ UNCHANGED <<task_files, mainpc, nextTask, stats, stats_lock, report,
                   tk, events, files, dirs>>

\* A wrapper that puts the slot back only when process_file returned.
ReleaseSlotOnReturn(w) ==
    /\ wk[w].pc \in {"return", "raised"}
    /\ slot_queue' = IF wk[w].pc = "return"
                      THEN Append(slot_queue, wk[w].slot) ELSE slot_queue
    /\ tk' = [tk EXCEPT ![wk[w].task].state =
                  IF wk[w].pc = "return" THEN "returned" ELSE "raised"]
    /\ wk' = [wk EXCEPT ![w] = IdleWorker]
    /\ UNCHANGED <<task_files, mainpc, nextTask, stats, stats_lock, report,
                   events, files, dirs>>

\* Lines 480-481: the slot goes back, whether process_file returned or raised
\* (the executor keeps the exception in a future nobody reads).
ReleaseSlot(w) ==
    /\ wk[w].pc \in {"return", "raised"}
    /\ slot_queue' = Append(slot_queue, wk[w].slot)
    /\ tk' = [tk EXCEPT ![wk[w].task].state =
                  IF wk[w].pc = "return" THEN "returned" ELSE "raised"]
    /\ wk' = [wk EXCEPT ![w] = IdleWorker]
    /\ UNCHANGED <<task_files, mainpc, nextTask, stats, stats_lock, report,
                   events, files, dirs>>

(***************************************************************************)
(* process_file (lines 348-448).                                           *)
(***************************************************************************)
\* The positions at which process_file enters a "with stats_lock:" block.
LockBlocks == {"total", "skip", "nomime", "types", "record"}

\* with stats_lock: (lines 354, 365, 375, 386, 438, 443, 447)
AcquireLock(w) ==
    /\ wk[w].pc \in LockBlocks
    /\ stats_lock = 0
    /\ stats_lock' = w
    /\ UNCHANGED <<task_files, mainpc, nextTask, slot_queue, stats, report,
                   wk, tk, events, files, dirs>>

\* Lines 355-357, when os.path.getsize answers.
CountTotal(w) ==
    /\ wk[w].pc = "total"
    /\ stats_lock = w
    /\ \E orig_size \in Sizes :
          /\ stats' = [stats EXCEPT !.total = @ + 1,
                                    !.original_size = @ + orig_size]
          /\ wk' = [wk EXCEPT ![w].pc = "check", ![w].orig_size = orig_size]
          /\ tk' = [tk EXCEPT ![wk[w].task].size = orig_size]
    /\ stats_lock' = 0
    /\ UNCHANGED <<task_files, mainpc, nextTask, slot_queue, report,
                   events, files, dirs>>

\* Lines 355-356, when os.path.getsize raises OSError (the file is gone, or is
\* a dangling link): the with block releases the lock and the exception
\* leaves process_file.
CountTotalRaises(w) ==
    /\ wk[w].pc = "total"
    /\ stats_lock = w
    /\ stats' = [stats EXCEPT !.total = @ + 1]
    /\ wk' = [wk EXCEPT ![w].pc = "raised"]
    /\ stats_lock' = 0
    /\ UNCHANGED <<task_files, mainpc, nextTask, slot_queue, report,
                   tk, events, files, dirs>>

\* The resource check with >= written for >.
ExceedsLimitOrEqual(orig_size) == orig_size >= MAX_FILE_SIZE_BYTES

\* orig_size > MAX_FILE_SIZE_BYTES, line 362
ExceedsLimit(orig_size) == orig_size > MAX_FILE_SIZE_BYTES

\* Lines 359-364: the INFO entry and the resource check.
CheckSize(w) ==
    LET t == wk[w].task
    IN  /\ wk[w].pc = "check"
        /\ IF ExceedsLimit(wk[w].orig_size)
           THEN /\ events' = Logged(Logged(events, t, "INFO", "Processing file"),
                                    t, "SECURITY", "File size exceeds limit")
                /\ wk' = [wk EXCEPT ![w].pc = "skip"]
           ELSE /\ events' = Logged(events, t, "INFO", "Processing file")
                /\ wk' = [wk EXCEPT ![w].pc = "sniff"]
        /\ UNCHANGED <<task_files, mainpc, nextTask, slot_queue, stats, stats_lock,
                       report, tk, files, dirs>>

\* Lines 365-368.
RecordSkipped(w) ==
    LET t == wk[w].task
    IN  /\ wk[w].pc = "skip"
        /\ stats_lock = w
        /\ stats' = [stats EXCEPT
                        !.skipped = @ + 1,
                        !.failed = Append(@, <<task_files[t], "File size exceeds limit">>)]
        /\ tk' = [tk EXCEPT ![t].outcomes = Append(@, "skipped")]
        /\ wk' = [wk EXCEPT ![w].pc = "return"]
        /\ stats_lock' = 0
        /\ UNCHANGED <<task_files, mainpc, nextTask, slot_queue, report,
                       events, files, dirs>>

\* Lines 371-374 and get_mime_type (lines 93-99): the sniffer answers a type,
\* answers nothing, or raises (get_mime_type logs that and returns None).
Sniff(w) ==
    LET t == wk[w].task
    IN  /\ wk[w].pc = "sniff"
        /\ \E mime_type \in Mimes \cup {NoMime}, raised \in BOOLEAN :
              /\ raised => mime_type = NoMime
              /\ IF mime_type = NoMime
                 THEN /\ events' =
                            Logged(IF raised
                                   THEN Logged(events, t, "ERROR", "Failed to detect MIME type")
                                   ELSE events,
                                   t, "ERROR", "Could not detect MIME type")
                      /\ wk' = [wk EXCEPT ![w].pc = "nomime"]
                      /\ tk' = [tk EXCEPT ![t].sniffed = TRUE]
                 ELSE /\ events' = events
                      /\ wk' = [wk EXCEPT ![w].pc = "types",
                                          ![w].cat = Categorize(mime_type)]
                      /\ tk' = [tk EXCEPT ![t].sniffed = TRUE,
                                          ![t].mime_type = mime_type,
                                          ![t].cat = Categorize(mime_type)]
        /\ UNCHANGED <<task_files, mainpc, nextTask, slot_queue, stats, stats_lock,
                       report, files, dirs>>

\* Lines 375-377.
RecordNoMime(w) ==
    LET t == wk[w].task
    IN  /\ wk[w].pc = "nomime"
        /\ stats_lock = w
        /\ stats' = [stats EXCEPT
                        !.failed = Append(@, <<task_files[t], "Could not detect MIME type">>)]
        /\ tk' = [tk EXCEPT ![t].outcomes = Append(@, "failed")]
        /\ wk' = [wk EXCEPT ![w].pc = "return"]
        /\ stats_lock' = 0
        /\ UNCHANGED <<task_files, mainpc, nextTask, slot_queue, report,
                       events, files, dirs>>

\* The per-kind counter incremented without taking stats_lock.
CountTypeUnlocked(w) ==
    /\ wk[w].pc = "types"
    /\ stats' = [stats EXCEPT !.types[wk[w].cat] = @ + 1]
    /\ wk' = [wk EXCEPT ![w].pc = "prepare"]
    /\ UNCHANGED <<task_files, mainpc, nextTask, slot_queue, stats_lock, report,
                   tk, events, files, dirs>>

\* Lines 386-387.
CountType(w) ==
    /\ wk[w].pc = "types"
    /\ stats_lock = w
    /\ stats' = [stats EXCEPT !.types[wk[w].cat] = @ + 1]
    /\ wk' = [wk EXCEPT ![w].pc = "prepare"]
    /\ stats_lock' = 0
    /\ UNCHANGED <<task_files, mainpc, nextTask, slot_queue, report,
                   tk, events, files, dirs>>

\* Lines 390-398, when os.makedirs raises OSError (the target exists as a
\* file, or may not be written): the exception leaves process_file.
PrepareRaises(w) ==
    /\ wk[w].pc = "prepare"
    /\ wk' = [wk EXCEPT ![w].pc = "raised"]
    /\ UNCHANGED <<task_files, mainpc, nextTask, slot_queue, stats, stats_lock,
                   report, tk, events, files, dirs>>

\* Lines 390-427 up to the strategy's call: the target directory is made and
\* the output path computed; an unsupported type is logged (lines 425-427).
Prepare(w) ==
    LET t == wk[w].task
        rel_path == task_files[t]
        cat == wk[w].cat
    IN  /\ wk[w].pc = "prepare"
        /\ dirs' = dirs \cup {TargetDir(rel_path)}
        /\ IF cat = "other"
           THEN /\ events' = Logged(events, t, "WARNING", "Unsupported file type")
                /\ wk' = [wk EXCEPT ![w].pc = "record",
                                    ![w].error_reason = "Unsupported file type"]
                /\ tk' = [tk EXCEPT ![t].made_dir = TRUE]
           ELSE \E uuid \in UUIDs :
                /\ events' = events
                /\ wk' = [wk EXCEPT ![w].pc = IF cat = "image" THEN "image" ELSE "launch",
                                    ![w].output_path = OutputPath(rel_path, cat, uuid)]
                /\ tk' = [tk EXCEPT ![t].made_dir = TRUE,
                                    ![t].output_path = OutputPath(rel_path, cat, uuid)]
        /\ UNCHANGED <<task_files, mainpc, nextTask, slot_queue, stats, stats_lock,
                       report, files>>

(***************************************************************************)
(* sanitize_image (lines 115-146).                                         *)
(***************************************************************************)
\* How the codec may end: the image is written; Image.open raises
\* DecompressionBombError; it raises another error before anything is
\* written; it raises while the output is being written.
ImageResults == {"ok", "bomb", "error", "partial"}

\* The whole call: every exception is caught by line 144 and logged by line
\* 145, so the handlers of process_file (lines 428-435) are never entered.
SanitizeImage(w) ==
    LET t == wk[w].task
    IN  /\ wk[w].pc = "image"
        /\ \E result \in ImageResults :
              /\ files' = IF result \in {"ok", "partial"}
                          THEN files \cup {wk[w].output_path} ELSE files
              /\ events' = IF result = "ok"
                           THEN Logged(events, t, "SUCCESS", "Image sanitized successfully")
                           ELSE Logged(events, t, "ERROR", "Image sanitization failed")
              /\ wk' = [wk EXCEPT ![w].pc = "record", ![w].success = (result = "ok")]
              /\ tk' = [tk EXCEPT ![t].strategy = "image", ![t].ended = result]
        /\ UNCHANGED <<task_files, mainpc, nextTask, slot_queue, stats, stats_lock,
                       report, dirs>>

(***************************************************************************)
(* sanitize_video, sanitize_audio, sanitize_gif (lines 148-346) and the    *)
(* transcoder process they launch.                                         *)
(***************************************************************************)
Max(a, b) == IF a >= b THEN a ELSE b

\* "if duration:" is false for None and for 0.0.
Truthy(duration) == duration # NoDuration /\ duration # 0

\* The deadline without its floor of one hour.
TimeoutLimitNoFloor(cat, duration) ==
    IF cat = "gif" THEN GIF_TIMEOUT
    ELSE IF Truthy(duration) THEN duration * 5
    ELSE DEFAULT_TIMEOUT

\* timeout_limit, lines 177-181 and 246-249; line 314 for a GIF.
TimeoutLimit(cat, duration) ==
    IF cat = "gif" THEN GIF_TIMEOUT
    ELSE IF Truthy(duration) THEN Max(DEFAULT_TIMEOUT, duration * 5)
    ELSE DEFAULT_TIMEOUT

\* The worker is inside the while loop of a supervised strategy, at
\* process.stderr.readline() (line 194).
Supervising(w) == wk[w].pc = "readline"

\* time.time() - start_time > timeout_limit, lines 185, 253, 314
Expired(elapsed, timeout_limit) == elapsed > timeout_limit

\* Lines 164-194: the duration is probed, the process launched, and the loop
\* entered; its first check of the deadline, made at once, finds it ahead.
Launch(w) ==
    LET t == wk[w].task
    IN  /\ wk[w].pc = "launch"
        /\ \E duration \in Durations \cup {NoDuration} :
              /\ ~Expired(0, TimeoutLimit(wk[w].cat, duration))
              /\ wk' = [wk EXCEPT ![w].pc = "readline", ![w].process = "running",
                                  ![w].stderr = "empty", ![w].elapsed = 0,
                                  ![w].duration = duration,
                                  ![w].timeout_limit = TimeoutLimit(wk[w].cat, duration)]
        /\ tk' = [tk EXCEPT ![t].strategy = wk[w].cat]
        /\ UNCHANGED <<task_files, mainpc, nextTask, slot_queue, stats, stats_lock,
                       report, events, files, dirs>>

\* Lines 164-165 raise (ffprobe or ffmpeg cannot be run): lines 217-219.
LaunchRaises(w) ==
    LET t == wk[w].task
    IN  /\ wk[w].pc = "launch"
        /\ events' = Logged(events, t, "ERROR", "unexpected error")
        /\ wk' = [wk EXCEPT ![w].pc = "record", ![w].success = FALSE]
        /\ tk' = [tk EXCEPT ![t].strategy = wk[w].cat, ![t].ended = "exception",
                            ![t].at_return = "none"]
        /\ UNCHANGED <<task_files, mainpc, nextTask, slot_queue, stats, stats_lock,
                       report, files, dirs>>

\* What a process that was launched may have left at output_path by the time
\* somebody looks: the files as they are, or with the partial output.
WithOutput(fs, output_path) == {fs, fs \cup {output_path}}

\* The worker's locals once the strategy has returned.
Returned(worker, success) ==
    [worker EXCEPT !.pc = "record", !.success = success, !.process = "none",
                   !.stderr = "empty", !.duration = NoDuration,
                   !.elapsed = 0, !.timeout_limit = 0]

\* Lines 194-204, then 185: process.stderr.readline() returns a line (it
\* waits as long as the process has written nothing and has not ended), and
\* the check at the top of the loop finds the deadline ahead.
ReadLine(w) ==
    /\ wk[w].pc = "readline"
    /\ wk[w].stderr = "line"
    /\ ~Expired(wk[w].elapsed, wk[w].timeout_limit)
    /\ wk' = [wk EXCEPT ![w].stderr = "empty"]
    /\ UNCHANGED <<task_files, mainpc, nextTask, slot_queue, stats, stats_lock,
                   report, tk, events, files, dirs>>

\* Lines 194-204, then 185-192: readline returns a line and the check finds
\* the deadline passed.  process.kill() polls the process (reaping it if it
\* has exited) and else sends the signal, without waiting; os.remove may
\* fail, which is ignored.
TimeOut(w) ==
    LET t == wk[w].task
        output_path == wk[w].output_path
    IN  /\ wk[w].pc = "readline"
        /\ wk[w].stderr = "line"
        /\ Expired(wk[w].elapsed, wk[w].timeout_limit)
        /\ events' = Logged(events, t, "SECURITY", "processing timed out")
        /\ \E fs \in WithOutput(files, output_path), removed \in BOOLEAN :
              files' = IF removed THEN fs \ {output_path} ELSE fs
        /\ tk' = [tk EXCEPT ![t].ended = "timeout",
                            ![t].at_return = IF wk[w].process = "running"
                                             THEN "killed" ELSE "reaped"]
        /\ wk' = [wk EXCEPT ![w] = Returned(@, FALSE)]
        /\ UNCHANGED <<task_files, mainpc, nextTask, slot_queue, stats, stats_lock,
                       report, dirs>>

\* Line 194 raises UnicodeDecodeError (the stream is opened with
\* encoding='utf-8' and the line is not UTF-8): lines 217-219, with the
\* process left as it is and nothing removed.
ReadLineRaises(w) ==
    LET t == wk[w].task
    IN  /\ wk[w].pc = "readline"
        /\ wk[w].stderr = "line"
        /\ events' = Logged(events, t, "ERROR", "unexpected error")
        /\ files' \in WithOutput(files, wk[w].output_path)
        /\ tk' = [tk EXCEPT ![t].ended = "exception",
                            ![t].at_return = wk[w].process]
        /\ wk' = [wk EXCEPT ![w] = Returned(@, FALSE)]
        /\ UNCHANGED <<task_files, mainpc, nextTask, slot_queue, stats, stats_lock,
                       report, dirs>>

\* process.stderr.read() (lines 213, 280): what is left unread on the stream.
ReadRest(stderr) == IF stderr = "line" THEN "line" ELSE ""

\* Lines 194-196 and 206-215: end of stream, and process.poll() gives the
\* exit code (reaping the process); the loop ends and the code decides.  With
\* code 0 the output is written.  With another code sanitize_video and
\* sanitize_audio read what is left of the stream into the ERROR entry
\* (sanitize_gif does not, line 341); the loop has read the stream to its end.
ReadEnd(w) ==
    LET t == wk[w].task
    IN  /\ wk[w].pc = "readline"
        /\ wk[w].stderr = "empty"
        /\ wk[w].process = "exited"
        /\ \E returncode \in {0, 1} :
              /\ events' = IF returncode = 0
                           THEN Logged(events, t, "SUCCESS", "sanitized successfully")
                           ELSE Logged(events, t, "ERROR", "sanitization failed")
              /\ IF returncode = 0
                 THEN files' = files \cup {wk[w].output_path}
                 ELSE files' \in WithOutput(files, wk[w].output_path)
              /\ tk' = [tk EXCEPT ![t].ended = IF returncode = 0 THEN "exit0" ELSE "nonzero",
                                  ![t].at_return = "reaped",
                                  ![t].err_output =
                                      IF returncode # 0 /\ wk[w].cat # "gif"
                                      THEN ReadRest(wk[w].stderr) ELSE @]
              /\ wk' = [wk EXCEPT ![w] = Returned(@, returncode = 0)]
        /\ UNCHANGED <<task_files, mainpc, nextTask, slot_queue, stats, stats_lock,
                       report, dirs>>

\* The transcoder writes a line to its diagnostic stream.
ProcWrites(w) ==
    /\ Supervising(w)
    /\ wk[w].process = "running"
    /\ wk[w].stderr = "empty"
    /\ wk' = [wk EXCEPT ![w].stderr = "line"]
    /\ UNCHANGED <<task_files, mainpc, nextTask, slot_queue, stats, stats_lock,
                   report, tk, events, files, dirs>>

\* The transcoder exits on its own.
ProcExits(w) ==
    /\ Supervising(w)
    /\ wk[w].process = "running"
    /\ wk' = [wk EXCEPT ![w].process = "exited"]
    /\ UNCHANGED <<task_files, mainpc, nextTask, slot_queue, stats, stats_lock,
                   report, tk, events, files, dirs>>

\* Time passes for every supervised process whose deadline is ahead (past
\* the deadline, more time changes nothing).
Tick ==
    /\ \E w \in Workers :
          Supervising(w) /\ ~Expired(wk[w].elapsed, wk[w].timeout_limit)
    /\ wk' = [w \in Workers |->
                IF Supervising(w) /\ ~Expired(wk[w].elapsed, wk[w].timeout_limit)
                THEN [wk[w] EXCEPT !.elapsed = @ + TickStep]
                ELSE wk[w]]
    /\ UNCHANGED <<task_files, mainpc, nextTask, slot_queue, stats, stats_lock,
                   report, tk, events, files, dirs>>

(***************************************************************************)
(* process_file, lines 437-448: the outcome goes into stats.               *)
(***************************************************************************)
RecordOutcome(w) ==
    LET t == wk[w].task
        output_path == wk[w].output_path
    IN  /\ wk[w].pc = "record"
        /\ stats_lock = w
        /\ IF wk[w].success
           THEN /\ \E size \in OutSizes :
                      stats' = [stats EXCEPT
                                   !.success = @ + 1,
                                   !.sanitized_size =
                                       IF output_path # NoPath /\ output_path \in files
                                       THEN @ + size ELSE @]
                /\ tk' = [tk EXCEPT ![t].outcomes = Append(@, "success"),
                                    ![t].output_at_record = output_path \in files]
           ELSE IF wk[w].cat = "other"
           THEN /\ stats' = [stats EXCEPT
                                !.ignored = @ + 1,
                                !.ignored_files = Append(@, task_files[t])]
                /\ tk' = [tk EXCEPT ![t].outcomes = Append(@, "ignored"),
                                    ![t].output_at_record = output_path \in files]
           ELSE /\ stats' = [stats EXCEPT
                                !.failed = Append(@, <<task_files[t], wk[w].error_reason>>)]
                /\ tk' = [tk EXCEPT ![t].outcomes = Append(@, "failed"),
                                    ![t].output_at_record = output_path \in files]
        /\ wk' = [wk EXCEPT ![w].pc = "return"]
        /\ stats_lock' = 0
        /\ UNCHANGED <<task_files, mainpc, nextTask, slot_queue, report,
                       events, files, dirs>>

(***************************************************************************)
(* The specification.                                                      *)
(***************************************************************************)
WorkerStep(w) ==
    \/ TakeTask(w)
    \/ GetSlot(w)
    \/ ReleaseSlot(w)
    \/ AcquireLock(w)
    \/ CountTotal(w)
    \/ CountTotalRaises(w)
    \/ CheckSize(w)
    \/ RecordSkipped(w)
    \/ Sniff(w)
    \/ RecordNoMime(w)
    \/ CountType(w)
    \/ PrepareRaises(w)
    \/ Prepare(w)
    \/ SanitizeImage(w)
    \/ Launch(w)
    \/ LaunchRaises(w)
    \/ ReadLine(w)
    \/ TimeOut(w)
    \/ ReadLineRaises(w)
    \/ ReadEnd(w)
    \/ RecordOutcome(w)

ProcessStep(w) ==
    \/ ProcWrites(w)
    \/ ProcExits(w)

Next ==
    \/ MainNoFiles
    \/ MainSubmit
    \/ MainReport
    \/ Tick
    \/ \E w \in Workers : WorkerStep(w)
    \/ \E w \in Workers : ProcessStep(w)

Spec == Init /\ [][Next]_vars

(***************************************************************************)
(* process_file called by another caller than main: the pool run over a    *)
(* list of at most one relative path of any content.                       *)
(***************************************************************************)
CallPaths ==
    TreePaths \cup
    { <<".", ".", "/", "x", ".", "j", "p", "g">>,
      <<"a", "/", ".", ".", "/", ".", ".", "/", "x", ".", "j", "p", "g">>,
      <<"/", "x", ".", "j", "p", "g">> }

CallInit ==
    /\ task_files \in {<<>>} \cup {<<p>> : p \in CallPaths}
    /\ mainpc = "start"
    /\ nextTask = 1
    /\ slot_queue = <<>>
    /\ stats = stats0
    /\ stats_lock = 0
    /\ report = stats0
    /\ wk = [w \in Workers |-> IdleWorker]
    /\ tk = [t \in Tasks |-> NewTask]
    /\ events = [t \in Tasks |-> <<>>]
    /\ files = {}
    /\ dirs = {}

CallSpec == CallInit /\ [][Next]_vars

(***************************************************************************)
(* The scheduling: every thread that can take a step takes one, main goes  *)
(* on, and time passes.  Nothing makes the transcoder write or exit.       *)
(***************************************************************************)
Fairness ==
    /\ \A w \in Workers : WF_vars(WorkerStep(w))
    /\ WF_vars(MainNoFiles \/ MainSubmit \/ MainReport)
    /\ WF_vars(Tick)

FairSpec == Init /\ [][Next]_vars /\ Fairness

\* The same scheduling with transcoders that go on: each one that runs and
\* has nothing unread on its diagnostic stream writes a line or exits.
\* The input tree holds files of two of its subdirectories, or is empty.
LivePaths ==
    { <<"a", "/", "x", ".", "j", "p", "g">>,
      <<"b", "/", "x", ".", "j", "p", "g">> }

LiveInit ==
    /\ \E tree \in SUBSET LivePaths :
          /\ Cardinality(tree) <= MaxFiles
          /\ task_files = Enumerate(tree)
    /\ mainpc = "start"
    /\ nextTask = 1
    /\ slot_queue = <<>>
    /\ stats = stats0
    /\ stats_lock = 0
    /\ report = stats0
    /\ wk = [w \in Workers |-> IdleWorker]
    /\ tk = [t \in Tasks |-> NewTask]
    /\ events = [t \in Tasks |-> <<>>]
    /\ files = {}
    /\ dirs = {}

LiveSpec ==
    LiveInit /\ [][Next]_vars /\ Fairness /\ \A w \in Workers : WF_vars(ProcessStep(w))

(***************************************************************************)
(* Properties.                                                             *)
(***************************************************************************)
Supervised == {"gif", "video", "audio"}

\* The reasons stats["failed"] holds for task t.
FailReasons(t) ==
    {stats.failed[i][2] : i \in {j \in 1..Len(stats.failed) : stats.failed[j][1] = task_files[t]}}

\* The entries of the event log of task t of one type.
EventsOfType(t, event_type) ==
    {i \in 1..Len(events[t]) : events[t][i][1] = event_type}

\* C1: once the pool has finished, every enumerated file has exactly one
\* outcome recorded in stats and stats["total"] is the number of files.
C1_OneOutcomePerFile ==
    PoolFinished =>
        /\ stats.total = Len(task_files)
        /\ \A t \in Tasks : Len(tk[t].outcomes) = 1
        /\ stats.success + stats.ignored + Len(stats.failed) = Len(task_files)

\* C2: a file larger than MAX_FILE_SIZE_BYTES is recorded as skipped for the
\* size limit and never reaches the classifier, os.makedirs or a strategy; a
\* file of exactly MAX_FILE_SIZE_BYTES is not skipped.
C2_SizeLimit ==
    /\ \A t \in Tasks :
          tk[t].size > MAX_FILE_SIZE_BYTES =>
              /\ ~tk[t].sniffed
              /\ ~tk[t].made_dir
              /\ tk[t].strategy = ""
              /\ tk[t].output_path = NoPath
              /\ tk[t].state \in {"running", "returned"}
              /\ tk[t].state = "returned" =>
                    /\ tk[t].outcomes = <<"skipped">>
                    /\ FailReasons(t) = {"File size exceeds limit"}
    /\ \A t \in Tasks :
          (tk[t].size # -1 /\ tk[t].size <= MAX_FILE_SIZE_BYTES) =>
              /\ \A i \in 1..Len(tk[t].outcomes) : tk[t].outcomes[i] # "skipped"
              /\ "File size exceeds limit" \notin FailReasons(t)
              /\ tk[t].state = "returned" => tk[t].sniffed
    /\ stats.skipped = Cardinality({t \in Tasks : tk[t].outcomes = <<"skipped">>})

\* C2's case: one file of MAX_FILE_SIZE_BYTES + 1 was skipped and one of
\* exactly MAX_FILE_SIZE_BYTES went on to the classifier.
C2_Witness ==
    \E t, u \in Tasks :
        /\ tk[t].size = MAX_FILE_SIZE_BYTES + 1
        /\ tk[t].state = "returned"
        /\ tk[t].outcomes = <<"skipped">>
        /\ tk[u].size = MAX_FILE_SIZE_BYTES
        /\ tk[u].state = "returned"
        /\ tk[u].sniffed

\* C3: an image whose decode raises DecompressionBombError is recorded with
\* the reason "Decompression bomb detected", logged as a SECURITY event,
\* never counted as a success, and has no output file when the task ends.
C3_DecompressionBomb ==
    \A t \in Tasks :
        (tk[t].ended = "bomb" /\ tk[t].outcomes # <<>>) =>
            /\ tk[t].outcomes = <<"failed">>
            /\ FailReasons(t) = {"Decompression bomb detected"}
            /\ EventsOfType(t, "SECURITY") # {}
            /\ tk[t].state = "returned" => tk[t].output_path \notin files

\* C4: for a task of an unsupported type no strategy is called, no output
\* file is made, stats["ignored"] grows by one and nothing is appended to
\* stats["failed"].
C4_Unsupported ==
    /\ \A t \in Tasks :
          tk[t].cat = "other" =>
              /\ tk[t].strategy = ""
              /\ tk[t].output_path = NoPath
              /\ FailReasons(t) = {}
              /\ tk[t].state \in {"returned", "raised"} => tk[t].outcomes = <<"ignored">>
    /\ PoolFinished => stats.ignored = Cardinality({t \in Tasks : tk[t].cat = "other"})

\* C5: two distinct tasks never compute the same output path.
C5_DistinctOutputPaths ==
    \A t, u \in Tasks :
        (t # u /\ tk[t].output_path # NoPath /\ tk[u].output_path # NoPath) =>
            tk[t].output_path # tk[u].output_path

\* C6: a supervised strategy whose transcoder never exits on its own
\* eventually returns, whatever the transcoder writes.
C6_HungTranscoderEnds ==
    \A w \in Workers : Supervising(w) ~> ~Supervising(w)

\* C7: the reason stored for a task that ended at its deadline differs from
\* the reason stored for a task whose transcoder exited with a non-zero code
\* or whose strategy met another error.
C7_TimeoutReason ==
    \A t, u \in Tasks :
        ( /\ tk[t].ended = "timeout" /\ tk[t].outcomes = <<"failed">>
          /\ tk[u].ended \in {"nonzero", "exception"} /\ tk[u].outcomes = <<"failed">> ) =>
            FailReasons(t) \cap FailReasons(u) = {}

\* C8: when a supervised task is recorded as failed, its output file does
\* not exist.
C8_NoPartialOutput ==
    \A t \in Tasks :
        (tk[t].strategy \in Supervised /\ tk[t].outcomes = <<"failed">>) =>
            ~tk[t].output_at_record

\* C9: when a supervised strategy returns, the transcoder it launched has
\* ended and been reaped.
C9_ProcessReaped ==
    \A t \in Tasks :
        (tk[t].strategy \in Supervised /\ tk[t].ended # "") =>
            tk[t].at_return \in {"none", "reaped"}

\* A relative path as main enumerates it: not absolute, no ".." segment.
Enumerable(rel_path) ==
    /\ ~StartsWith(rel_path, <<"/">>)
    /\ \A i \in 1..Len(Segments(rel_path)) : Segments(rel_path)[i] # <<".", ".">>

AllTasksEnded == \A t \in Tasks : tk[t].state \in {"returned", "raised"}

\* C11: once the tasks are submitted, whatever each of them does (fails, is
\* skipped, times out, raises out of process_file), every task is taken and
\* ended and main prints the final report; provided each task ends.
C11_ReportAfterAnyOutcome ==
    (mainpc = "pool") ~> (mainpc = "reported" /\ AllTasksEnded)

\* C11's case: the report is printed after one task raised out of
\* process_file and the task submitted after it was recorded as failed.
C11_Witness ==
    /\ mainpc = "reported"
    /\ \E t, u \in Tasks :
          /\ t < u
          /\ tk[t].state = "raised"
          /\ tk[u].state = "returned"
          /\ tk[u].outcomes = <<"failed">>
    /\ report.success = 0

\* The number of tasks of a set.
Count(S) == Cardinality(S)

\* The sum of f over the tasks of S.
RECURSIVE SumOver(_, _)
SumOver(f, S) ==
    IF S = {} THEN 0
    ELSE LET t == CHOOSE u \in S : TRUE IN f[t] + SumOver(f, S \ {t})

\* The tasks whose strategy returned True.
Succeeded == {t \in Tasks : tk[t].ended \in {"ok", "exit0"}}

\* The tasks whose strategy returned False.
StrategyFailed == {t \in Tasks : tk[t].ended \notin {"", "ok", "exit0"}}

\* The final stats as the collaborators' answers for each task fix them:
\* nothing in them depends on the order in which the workers took their steps.
ExpectedStats ==
    [ total |-> Count({t \in Tasks : tk[t].state \in {"returned", "raised"}}),
      success |-> Count(Succeeded),
      skipped |-> Count({t \in Tasks : tk[t].size > MAX_FILE_SIZE_BYTES}),
      ignored |-> Count({t \in Tasks : tk[t].cat = "other" /\ tk[t].made_dir}),
      failed |-> Count({t \in Tasks : tk[t].size > MAX_FILE_SIZE_BYTES})
                 + Count({t \in Tasks : tk[t].sniffed /\ tk[t].cat = ""})
                 + Count(StrategyFailed),
      types |-> [c \in {"image", "video", "audio", "gif", "other"} |->
                    Count({t \in Tasks : tk[t].cat = c})],
      original_size |-> SumOver([t \in Tasks |-> tk[t].size],
                                {t \in Tasks : tk[t].size # -1}),
      sanitized_size |-> SumOver([t \in Tasks |-> CHOOSE s \in OutSizes : TRUE],
                                 Succeeded) ]

\* C12: once the pool has finished, the aggregate stats are the ones that the
\* input set and the collaborators' answers for each task fix, whatever the
\* interleaving of the workers was.
C12_StatsDetermined ==
    PoolFinished =>
        /\ stats.total = ExpectedStats.total
        /\ stats.success = ExpectedStats.success
        /\ stats.skipped = ExpectedStats.skipped
        /\ stats.ignored = ExpectedStats.ignored
        /\ Len(stats.failed) = ExpectedStats.failed
        /\ stats.types = ExpectedStats.types
        /\ stats.original_size = ExpectedStats.original_size
        /\ stats.sanitized_size = ExpectedStats.sanitized_size

\* The workers that are running task t.
Holding(t) == {w \in Workers : wk[w].pc # "idle" /\ wk[w].task = t}

\* The tasks that are inside worker_wrapper and process_file.
Running == {t \in Tasks : tk[t].state = "running"}

Slots == 0..(MAX_WORKERS - 1)

\* The slots in slot_queue.
FreeSlots == {slot_queue[i] : i \in 1..Len(slot_queue)}

\* The workers that hold a slot: past slot_queue.get(), before slot_queue.put.
SlotHolders == {w \in Workers : wk[w].pc \notin {"idle", "slot"}}

\* C14: once main has filled the queue, the slots held are pairwise distinct
\* and no slot is in the queue twice, held and free slots together are
\* 0..MAX_WORKERS-1, a worker at slot_queue.get() finds a slot, and when
\* every task has ended, by returning or by raising, every slot is free.
C14_SlotPool ==
    mainpc \in {"pool", "reported"} =>
        /\ \A v, w \in SlotHolders : v # w => wk[v].slot # wk[w].slot
        /\ \A i, j \in 1..Len(slot_queue) : i # j => slot_queue[i] # slot_queue[j]
        /\ \A w \in SlotHolders : wk[w].slot \notin FreeSlots
        /\ FreeSlots \cup {wk[w].slot : w \in SlotHolders} = Slots
        /\ \A w \in Workers : wk[w].pc = "slot" => slot_queue # <<>>
        /\ PoolFinished => FreeSlots = Slots

\* C14's case: after the first task raised out of process_file, its worker
\* holds a slot again for the second task and the other slot is free.
C14_Witness ==
    /\ Len(task_files) = 2
    /\ tk[1].state = "raised"
    /\ SlotHolders = {1}
    /\ wk[1].task = 2
    /\ slot_queue # <<>>

\* C15: a task is taken from the queue only after every task whose relative
\* path is smaller, character by character, has been taken; nothing is said
\* of the order in which the tasks end.
C15_DispatchOrder ==
    \A t, u \in Tasks :
        (StrLess(task_files[t], task_files[u]) /\ tk[u].state # "queued") =>
            tk[t].state # "queued"

\* C15's case: of two files, the one whose path is smaller because " " sorts
\* before "/" is running or ended, the other was taken after it and has
\* ended first.
C15_Witness ==
    \E t, u \in Tasks :
        /\ task_files[t] = <<"a", " ", "b", ".", "j", "p", "g">>
        /\ task_files[u] = <<"a", "/", "x", ".", "j", "p", "g">>
        /\ tk[u].state = "returned"
        /\ tk[t].state = "running"

\* The tasks for which one outcome of a kind was recorded.
WithOutcome(kind) == {t \in Tasks : tk[t].outcomes = <<kind>>}

\* C16: stats changes only in a step of a worker that holds stats_lock inside
\* one of the "with stats_lock:" blocks, a step in which no other worker
\* moves; once the pool has finished each counter is the number of tasks
\* with that outcome; and the report holds the stats of the finished pool.
C16_StatsUnderLock ==
    /\ [][stats' # stats =>
              \E w \in Workers :
                  /\ stats_lock = w
                  /\ wk[w].pc \in LockBlocks
                  /\ stats_lock' = 0
                  /\ \A v \in Workers \ {w} : wk'[v] = wk[v]]_vars
    /\ [](PoolFinished =>
              /\ stats.total = Cardinality({t \in Tasks : tk[t].state \in {"returned", "raised"}})
              /\ stats.success = Cardinality(WithOutcome("success"))
              /\ stats.skipped = Cardinality(WithOutcome("skipped"))
              /\ stats.ignored = Cardinality(WithOutcome("ignored"))
              /\ Len(stats.ignored_files) = Cardinality(WithOutcome("ignored"))
              /\ Len(stats.failed) =
                    Cardinality(WithOutcome("failed")) + Cardinality(WithOutcome("skipped"))
              /\ \A c \in DOMAIN stats.types :
                    stats.types[c] = Cardinality({t \in Tasks : tk[t].cat = c}))
    /\ [](mainpc = "reported" => PoolFinished /\ report = stats)

\* C16's case: both workers are at the block that records the outcome, one
\* inside it with the lock and the other waiting for the lock.
C16_Witness ==
    /\ stats_lock = 1
    /\ wk[1].pc = "record"
    /\ wk[2].pc = "record"

\* The event types that tell how a task ended.
CompletionTypes == {"SUCCESS", "ERROR", "SECURITY", "WARNING", "SKIP"}

\* The completion entries of the event log of task t.
CompletionEntries(t) ==
    {i \in 1..Len(events[t]) : events[t][i][1] \in CompletionTypes}

\* C17: a task that has ended, by returning or by raising, has exactly one
\* completion entry in the event log.
C17_OneCompletionEntry ==
    \A t \in Tasks :
        tk[t].state \in {"returned", "raised"} =>
            Cardinality(CompletionEntries(t)) = 1

\* C18: a task whose transcoder exited with a non-zero code is recorded as
\* failed with a reason of its own, not the initial "Unknown error", and the
\* diagnostic text captured after the loop is not the empty string.
C18_TranscodeFailedDetail ==
    \A t \in Tasks :
        (tk[t].ended = "nonzero" /\ tk[t].outcomes # <<>>) =>
            /\ tk[t].outcomes = <<"failed">>
            /\ "Unknown error" \notin FailReasons(t)
            /\ tk[t].err_output \notin {"none", ""}

\* The deadline in seconds as the timeout policy states it.
PolicyDeadline(cat, duration) ==
    IF cat = "gif" THEN 300
    ELSE IF duration = NoDuration THEN 3600
    ELSE IF 5 * duration > 3600 THEN 5 * duration ELSE 3600

\* C19: the deadline of a supervised process is the one of the timeout
\* policy for its kind and its probed duration, and the supervisor ends a
\* task as timed out only when more time than that has passed since launch.
C19_Deadline ==
    /\ [](\A w \in Workers :
              Supervising(w) =>
                  wk[w].timeout_limit = PolicyDeadline(wk[w].cat, wk[w].duration))
    /\ [][\A w \in Workers :
              (Supervising(w) /\ tk'[wk[w].task].ended = "timeout") =>
                  wk[w].elapsed > PolicyDeadline(wk[w].cat, wk[w].duration)]_vars

\* C19's case: a video of 1440 seconds has run past its deadline of 7200
\* seconds and the supervisor, with a line read, is about to kill it.
C19_Witness ==
    \E w \in Workers :
        /\ Supervising(w)
        /\ wk[w].cat = "video"
        /\ wk[w].duration = 1440
        /\ wk[w].timeout_limit = 7200
        /\ wk[w].elapsed > 7200
        /\ wk[w].stderr = "line"

\* The strategy the dispatch rule names for a sniffed type, "" for none.
PolicyStrategy(mime_type) ==
    CASE mime_type.type = "image" /\ mime_type.sub = "gif" -> "gif"
      [] mime_type.type = "video" -> "video"
      [] mime_type.type = "image" /\ mime_type.sub # "gif" -> "image"
      [] mime_type.type = "audio" -> "audio"
      [] OTHER -> ""

\* C20: the strategy called for a task is the one the dispatch rule names
\* for its sniffed type, whatever the file's extension: sanitize_gif for
\* image/gif, sanitize_video for video/*, sanitize_image for another
\* image/*, sanitize_audio for audio/*, none for anything else; a task whose
\* sniff gave no type gets no category, no per-kind count and no strategy,
\* and is recorded as failed.
C20_Dispatch ==
    /\ \A t \in Tasks :
          /\ tk[t].strategy \in {"", PolicyStrategy(tk[t].mime_type)}
          /\ tk[t].ended # "" => tk[t].strategy = PolicyStrategy(tk[t].mime_type)
          /\ (tk[t].sniffed /\ tk[t].mime_type = NoMime) =>
                /\ tk[t].cat = ""
                /\ tk[t].strategy = ""
                /\ tk[t].state = "returned" => tk[t].outcomes = <<"failed">>
          /\ (tk[t].outcomes # <<>> /\ tk[t].mime_type # NoMime) =>
                (PolicyStrategy(tk[t].mime_type) = "" <=> tk[t].outcomes = <<"ignored">>)
    /\ PoolFinished =>
          \A c \in DOMAIN stats.types :
              stats.types[c] =
                  Cardinality({t \in Tasks :
                      /\ tk[t].mime_type # NoMime
                      /\ c = IF PolicyStrategy(tk[t].mime_type) = "" THEN "other"
                              ELSE PolicyStrategy(tk[t].mime_type)})

\* C20's case: a file named x.jpg and sniffed as image/gif went through the
\* GIF strategy, and one sniffed as text/plain was recorded as ignored.
C20_Witness ==
    \E t, u \in Tasks :
        /\ SplitExtExt(BaseName(task_files[t])) = <<".", "j", "p", "g">>
        /\ tk[t].mime_type = [type |-> "image", sub |-> "gif"]
        /\ tk[t].strategy = "gif"
        /\ tk[t].ended = "exit0"
        /\ tk[t].state = "returned"
        /\ tk[u].mime_type = [type |-> "text", sub |-> "plain"]
        /\ tk[u].outcomes = <<"ignored">>

\* The report's Failed figure, line 507.
FailedFigure(s) == Len(s.failed) - s.skipped

\* C21: stats["skipped"] is never more than len(stats["failed"]), so the
\* Failed figure is never negative; and once the pool has finished the four
\* figures of the report add up to stats["total"].
C21_ReportPartition ==
    /\ stats.skipped <= Len(stats.failed)
    /\ FailedFigure(stats) >= 0
    /\ PoolFinished =>
          stats.total = stats.success + stats.skipped + stats.ignored + FailedFigure(stats)

====
